---------------------------- MODULE Spec2Model ----------------------------
(***************************************************************************)
(* Greeting store of main.go: the /greet, /greetings, /clear and /search   *)
(* handlers running concurrently (one goroutine per request) against one   *)
(* SQLite table and one process-wide sync.Mutex.                           *)
(*                                                                         *)
(* Text values are modelled by their parts: a date text "2024-01-15" is    *)
(* the sequence of its digit groups <<[w |-> 4, v |-> 2024], [w |-> 2,     *)
(* v |-> 1], [w |-> 2, v |-> 15]>> (w: the width in digits, v: the value), *)
(* the empty string is <<>>, and a formatted message is the sequence of    *)
(* its pieces.                                                             *)
(***************************************************************************)
EXTENDS Integers, Sequences, FiniteSets, TLC

\* ------------------------------------------------------------------ bounds
\* Largest id the model lets an INSERT assign (caps the AUTOINCREMENT counter).
MaxId == 2

\* The request goroutines running at the same time.
Procs == {1, 2}

\* ------------------------------------------------------------------ inputs
Methods == {"GET", "POST"}
FirstNames == {"", "Ann"}
LastNames == {"", "Lee", "Kim"}

G(w, v) == [w |-> w, v |-> v]
\* "2024-01-01", "2024-01-15", "0001-01-01", and the malformed "01-2024-01"
D_2024_01_01 == <<G(4, 2024), G(2, 1), G(2, 1)>>
D_2024_01_15 == <<G(4, 2024), G(2, 1), G(2, 15)>>
D_0001_01_01 == <<G(4, 1), G(2, 1), G(2, 1)>>
D_Malformed == <<G(2, 1), G(4, 2024), G(2, 1)>>
EmptyStr == <<>>

Filter(f, l, sd, ed) ==
    [first_name |-> f, last_name |-> l, start_date |-> sd, end_date |-> ed]

\* The query strings /search is called with.
Filters ==
    { Filter("", "", EmptyStr, EmptyStr),
      Filter("Ann", "Lee", EmptyStr, EmptyStr),
      Filter("", "Kim", EmptyStr, EmptyStr),
      Filter("", "", D_2024_01_01, D_2024_01_01),
      Filter("", "", D_2024_01_15, EmptyStr),
      Filter("", "", D_Malformed, EmptyStr),
      Filter("", "", EmptyStr, D_Malformed),
      Filter("", "", EmptyStr, D_0001_01_01) }

\* Instants time.Now() returns while the model runs.
Clock ==
    { [y |-> 2024, m |-> 1, d |-> 15, hh |-> 23, mi |-> 59, ss |-> 59] }

Nil == "nil"
StorageErr == "storage error"

\* ------------------------------------------------------- time and text
\* The zero value of time.Time: January 1, year 1, 00:00:00 UTC.
ZeroTime == [y |-> 1, m |-> 1, d |-> 1]

IsLeap(y) == (y % 4 = 0 /\ y % 100 # 0) \/ y % 400 = 0

DaysIn(y, m) ==
    IF m = 2 THEN (IF IsLeap(y) THEN 29 ELSE 28)
    ELSE IF m \in {4, 6, 9, 11} THEN 30 ELSE 31

\* time.Parse("2006-01-02", s): three groups of 4, 2 and 2 digits naming a
\* real calendar day; anything else is an error.
ParseDateLenient(s) ==
    IF Len(s) = 3
    THEN [err |-> Nil, t |-> [y |-> s[1].v, m |-> s[2].v, d |-> s[3].v]]
    ELSE [err |-> "parse error", t |-> ZeroTime]
ParseDate(s) ==
    IF /\ Len(s) = 3
       /\ s[1].w = 4 /\ s[2].w = 2 /\ s[3].w = 2
       /\ s[2].v \in 1..12
       /\ s[3].v \in 1..DaysIn(s[1].v, s[2].v)
    THEN [err |-> Nil, t |-> [y |-> s[1].v, m |-> s[2].v, d |-> s[3].v]]
    ELSE [err |-> "parse error", t |-> ZeroTime]

\* t.IsZero()
IsZero(t) == t = ZeroTime

\* t.Format("2006-01-02")
FormatDate(t) == <<G(4, t.y), G(2, t.m), G(2, t.d)>>

\* time.Now().Format("2006-01-02 15:04:05")
FormatTimestamp(now) ==
    [date |-> FormatDate(now),
     tod |-> <<G(2, now.hh), G(2, now.mi), G(2, now.ss)>>]

\* fmt.Sprintf("Thank you, %s %s! Your greeting has been recorded.", f, l)
SprintfThanks(f, l) ==
    <<"Thank you, ", f, " ", l, "! Your greeting has been recorded.">>

\* Byte-wise order of two texts made of digit groups of equal widths.
RECURSIVE TextLeq(_, _)
TextLeq(a, b) ==
    IF a = <<>> THEN TRUE
    ELSE IF b = <<>> THEN FALSE
    ELSE IF a[1].v # b[1].v THEN a[1].v < b[1].v
    ELSE TextLeq(Tail(a), Tail(b))

\* ------------------------------------------------------ the SQL engine
\* SQLite's DATE(timestamp) of a "YYYY-MM-DD HH:MM:SS" text: its date part.
SqlDate(ts) == ts.date

SelectCols == "SELECT first_name, last_name, message, timestamp FROM greetings"
CondFirst == "first_name = ?"
CondLast == "last_name = ?"
CondStart == "DATE(timestamp) >= ?"
CondEnd == "DATE(timestamp) <= ?"

\* One condition of a WHERE clause evaluated on a row with its bound parameter.
EvalCond(row, cond, param) ==
    CASE cond = CondFirst -> row.first_name = param
      [] cond = CondLast -> row.last_name = param
      [] cond = CondStart -> TextLeq(param, SqlDate(row.timestamp))
      [] cond = CondEnd -> TextLeq(SqlDate(row.timestamp), param)
      [] OTHER -> FALSE

\* The WHERE clause: the conjunction of its conditions (none: every row).
RowMatches(row, conds, params) ==
    \A i \in 1..Len(conds) : EvalCond(row, conds[i], params[i])

\* The columns a SELECT returns for a row.
Project(row) ==
    [first_name |-> row.first_name, last_name |-> row.last_name,
     message |-> row.message, timestamp |-> row.timestamp]

MaxOf(S) == IF S = {} THEN 0 ELSE CHOOSE x \in S : \A y \in S : y <= x

RowIds(t) == {t[i].id : i \in 1..Len(t)}

\* id INTEGER PRIMARY KEY AUTOINCREMENT: one more than the largest id the
\* table ever held (sqlite_sequence), whatever has been deleted since.
NextIdRepeated(t, s) == IF s = 0 THEN 1 ELSE MaxOf(RowIds(t) \cup {s})
NextIdNoAutoincrement(t, s) == MaxOf(RowIds(t)) + 1
NextId(t, s) == MaxOf(RowIds(t) \cup {s}) + 1

\* INSERT INTO greetings (first_name, last_name, message, timestamp)
\* VALUES (?, ?, ?, ?) with its four bound parameters.
InsertRow(t, s, a1, a2, a3, a4) ==
    [id |-> NextId(t, s), first_name |-> a1, last_name |-> a2,
     message |-> a3, timestamp |-> a4]

\* DELETE FROM greetings: every row goes; the result counts them.
DeleteAllButFirst(t) ==
    [table |-> IF t = <<>> THEN <<>> ELSE <<t[1]>>,
     rowsAffected |-> IF t = <<>> THEN 0 ELSE Len(t) - 1]
DeleteAll(t) == [table |-> <<>>, rowsAffected |-> Len(t)]

\* The conditions of a query text: what follows " WHERE ", split at " AND ".
WhereOf(query) ==
    IF Len(query) >= 2 /\ query[2] = " WHERE "
    THEN SelectSeq(SubSeq(query, 3, Len(query)), LAMBDA x : x # " AND ")
    ELSE <<>>

\* The rows a cursor still has to visit: those after the last one it
\* returned, in rowid order, that satisfy the WHERE clause.
Remaining(t, lastId, query, params) ==
    SelectSeq(t, LAMBDA r : /\ r.id > lastId
                            /\ RowMatches(r, WhereOf(query), params))

\* What a whole SELECT returns on table t.
SelectAll(t, query, params) ==
    LET m == SelectSeq(t, LAMBDA r : RowMatches(r, WhereOf(query), params))
    IN [i \in 1..Len(m) |-> Project(m[i])]



\* sync.Mutex: Lock() returns only once the mutex is free.
LockAlwaysGranted(m) == TRUE
CanLock(m) == m = FALSE

\* json.NewEncoder(w).Encode(v) of a []Greeting: a nil slice encodes as null.
JSONEncode(v) == [kind |-> "json", null |-> v = <<>>, items |-> v]
TextBody(s) == [kind |-> "text", text |-> s]
NoResp == [status |-> 0, body |-> TextBody("")]
Respond(status, body) == [status |-> status, body |-> body]

\* ------------------------------------------------------------------- state
VARIABLES
    table,      \* rows of greetings, in rowid order
    seq,        \* sqlite_sequence entry of greetings: the largest id ever assigned
    mu,         \* the process-wide mutex: TRUE while locked
    pc,         \* where each request goroutine stands in its handler
    req,        \* the request it serves
    loc,        \* the handler's local variables
    cur,        \* its *sql.Rows cursor
    results,    \* the []Greeting slice it collects
    resp,       \* what it has written to the http.ResponseWriter
    idLog,      \* history: the ids INSERTs assigned, in execution order
    expect,     \* history: what the INSERTs since the last DELETE were given
    released,   \* history: those of them whose handler has unlocked mu
    lastMut,    \* history: the last statement that changed the table
    hist        \* history of each request in progress

db == <<table, seq>>
handler == <<pc, req, loc, cur, results, resp>>
history == <<idLog, expect, released, lastMut, hist>>
vars == <<table, seq, mu, pc, req, loc, cur, results, resp,
          idLog, expect, released, lastMut, hist>>

NoReq == [op |-> "none"]
NoLoc == [err |-> Nil]
NoCur == [open |-> FALSE, lastId |-> 0]
NoHist == [seen |-> {}, mustSee |-> {}, postClear |-> FALSE,
           removed |-> -1, pre |-> <<>>, began |-> -1]

ReadPcs == {"list_next", "search_lock", "search_query", "search_next"}
Reading(q) == pc[q] \in ReadPcs

\* A statement stepping through its rows holds SQLite's shared lock on the
\* database file; a writing statement on another connection of the pool
\* cannot commit until every such lock is gone.
CanWrite(c) == \A q \in Procs : ~c[q].open

Init ==
    /\ table = <<>>
    /\ seq = 0
    /\ mu = FALSE
    /\ pc = [p \in Procs |-> "idle"]
    /\ req = [p \in Procs |-> NoReq]
    /\ loc = [p \in Procs |-> NoLoc]
    /\ cur = [p \in Procs |-> NoCur]
    /\ results = [p \in Procs |-> <<>>]
    /\ resp = [p \in Procs |-> NoResp]
    /\ idLog = <<>>
    /\ expect = <<>>
    /\ released = {}
    /\ lastMut = "none"
    /\ hist = [p \in Procs |-> NoHist]

\* The handler returns having written `r`.
Finish(p, r) ==
    /\ pc' = [pc EXCEPT ![p] = "done"]
    /\ resp' = [resp EXCEPT ![p] = r]

\* mu.Lock()
Lock(p, from, to) ==
    /\ pc[p] = from
    /\ CanLock(mu)
    /\ mu' = TRUE
    /\ pc' = [pc EXCEPT ![p] = to]
    /\ UNCHANGED <<db, req, loc, cur, results, resp, history>>

\* The Records of a table: its rows without their ids.
Records(t) == [i \in 1..Len(t) |-> Project(t[i])]

\* History kept for the requests that are reading while the table changes.
NoteWrite(newTable, isClear) ==
    hist' = [q \in Procs |->
               IF Reading(q)
               THEN [hist[q] EXCEPT
                       !.seen = @ \cup {Records(newTable)},
                       !.mustSee = IF isClear THEN {} ELSE @,
                       !.postClear = IF isClear THEN @ ELSE FALSE]
               ELSE hist[q]]

\* ------------------------------------------------------------------ /greet
\* firstName == "" || lastName == ""
NamesMissingFirstOnly(f, l) == f = ""
NamesMissing(f, l) == f = "" \/ l = ""

GreetBegin(p) ==
    /\ pc[p] = "idle"
    /\ \E m \in Methods :
         IF m # "POST"
         THEN /\ req' = [req EXCEPT ![p] = [op |-> "greet", method |-> m]]
              /\ Finish(p, Respond(405, TextBody("Invalid request method")))
              /\ UNCHANGED <<loc, hist>>
         ELSE \E f \in FirstNames, l \in LastNames :
                /\ req' = [req EXCEPT ![p] =
                             [op |-> "greet", method |-> m,
                              first_name |-> f, last_name |-> l]]
                /\ IF NamesMissing(f, l)
                   THEN /\ Finish(p, Respond(400,
                                TextBody("First and last names are required")))
                        /\ UNCHANGED <<loc, hist>>
                   ELSE \E now \in Clock :
                          /\ loc' = [loc EXCEPT ![p] =
                                       [firstName |-> f, lastName |-> l,
                                        message |-> SprintfThanks(f, l),
                                        timestamp |-> FormatTimestamp(now),
                                        err |-> Nil]]
                          /\ hist' = [hist EXCEPT ![p].began = Len(idLog)]
                          /\ pc' = [pc EXCEPT ![p] = "greet_lock"]
                          /\ UNCHANGED resp
    /\ UNCHANGED <<db, mu, cur, results, idLog, expect, released, lastMut>>

GreetLock(p) == Lock(p, "greet_lock", "greet_exec")

\* The Record the handler hands to the INSERT.
GreetRecord(p) ==
    [first_name |-> loc[p].firstName, last_name |-> loc[p].lastName,
     message |-> loc[p].message, timestamp |-> loc[p].timestamp]

GreetExec(p) ==
    /\ pc[p] = "greet_exec"
    /\ \/ LET row == InsertRow(table, seq, loc[p].firstName, loc[p].lastName,
                               loc[p].message, loc[p].timestamp)
          IN /\ CanWrite(cur)
             /\ row.id <= MaxId
             /\ table' = Append(table, row)
             /\ seq' = row.id
             /\ idLog' = Append(idLog, row.id)
             /\ expect' = Append(expect, GreetRecord(p))
             /\ lastMut' = "insert"
             /\ NoteWrite(Append(table, row), FALSE)
             /\ UNCHANGED <<loc, released>>
       \/ /\ loc' = [loc EXCEPT ![p].err = StorageErr]
          /\ UNCHANGED <<db, history>>
    /\ pc' = [pc EXCEPT ![p] = "greet_unlock"]
    /\ UNCHANGED <<mu, req, cur, results, resp>>

GreetUnlockReportsSuccess(p) ==
    /\ pc[p] = "greet_unlock"
    /\ mu' = FALSE
    /\ released' = released \cup {GreetRecord(p)}
    /\ Finish(p, Respond(200, [kind |-> "page", message |-> loc[p].message]))
    /\ UNCHANGED <<db, req, loc, cur, results,
                   idLog, expect, lastMut, hist>>
GreetUnlock(p) ==
    /\ pc[p] = "greet_unlock"
    /\ mu' = FALSE
    /\ IF loc[p].err # Nil
       THEN /\ Finish(p, Respond(500, TextBody("Error could not save greeting")))
            /\ UNCHANGED released
       ELSE /\ released' = released \cup {GreetRecord(p)}
            /\ \E rendered \in BOOLEAN :
                 Finish(p, IF rendered
                           THEN Respond(200, [kind |-> "page",
                                              message |-> loc[p].message])
                           ELSE Respond(500, TextBody("template error")))
    /\ UNCHANGED <<db, req, loc, cur, results,
                   idLog, expect, lastMut, hist>>

\* The history a reading request starts with.
ReadHist ==
    [seen |-> {Records(table)}, mustSee |-> released, postClear |-> lastMut = "clear",
     removed |-> -1, pre |-> <<>>, began |-> -1]

\* rows.Next() and rows.Scan(...) on the cursor of p over its query. The
\* three outcomes: the step fails, a row is scanned and appended, or the
\* rows are exhausted (database/sql then closes them). Every column is a
\* text the INSERT bound, so Scan into a string cannot fail.
StepFails(p) ==
    cur' = [cur EXCEPT ![p] = NoCur]

StepRow(p) ==
    LET rem == Remaining(table, cur[p].lastId, loc[p].query, loc[p].queryParams)
    IN /\ rem # <<>>
       /\ cur' = [cur EXCEPT ![p] = [open |-> TRUE, lastId |-> rem[1].id]]
       /\ results' = [results EXCEPT ![p] = Append(@, Project(rem[1]))]

StepEnd(p) ==
    /\ Remaining(table, cur[p].lastId, loc[p].query, loc[p].queryParams) = <<>>
    /\ cur' = [cur EXCEPT ![p] = NoCur]

\* -------------------------------------------------------------- /greetings
\* dataBase.Query("SELECT first_name, last_name, message, timestamp FROM
\* greetings") and the err it returned.
ListQuery(err) == [query |-> <<SelectCols>>, queryParams |-> <<>>, err |-> err]

ListBegin(p) ==
    /\ pc[p] = "idle"
    /\ \E m \in Methods :
         /\ req' = [req EXCEPT ![p] = [op |-> "list", method |-> m]]
         /\ IF m # "GET"
            THEN /\ Finish(p, Respond(200, TextBody("")))
                 /\ UNCHANGED <<loc, hist>>
            ELSE \/ /\ loc' = [loc EXCEPT ![p] = ListQuery(StorageErr)]
                    /\ Finish(p, Respond(500, TextBody("Failed to fetch greetings")))
                    /\ UNCHANGED hist
                 \/ /\ loc' = [loc EXCEPT ![p] = ListQuery(Nil)]
                    /\ pc' = [pc EXCEPT ![p] = "list_next"]
                    /\ hist' = [hist EXCEPT ![p] = ReadHist]
                    /\ UNCHANGED resp
    /\ UNCHANGED <<db, mu, cur, results,
                   idLog, expect, released, lastMut>>

ListNextWaitsForLock(p) ==
    /\ pc[p] = "list_next"
    /\ CanLock(mu)
    /\ \/ /\ StepFails(p)
          /\ Finish(p, Respond(200, JSONEncode(results[p])))
          /\ UNCHANGED results
       \/ /\ StepRow(p)
          /\ UNCHANGED <<pc, resp>>
       \/ /\ StepEnd(p)
          /\ Finish(p, Respond(200, JSONEncode(results[p])))
          /\ UNCHANGED results
    /\ UNCHANGED <<db, mu, req, loc, history>>
ListNext(p) ==
    /\ pc[p] = "list_next"
    /\ \/ /\ StepFails(p)
          /\ Finish(p, Respond(200, JSONEncode(results[p])))
          /\ UNCHANGED results
       \/ /\ StepRow(p)
          /\ UNCHANGED <<pc, resp>>
       \/ /\ StepEnd(p)
          /\ Finish(p, Respond(200, JSONEncode(results[p])))
          /\ UNCHANGED results
    /\ UNCHANGED <<db, mu, req, loc, history>>

\* ------------------------------------------------------------------ /clear
ClearBegin(p) ==
    /\ pc[p] = "idle"
    /\ \E m \in Methods :
         /\ req' = [req EXCEPT ![p] = [op |-> "clear", method |-> m]]
         /\ IF m # "POST"
            THEN Finish(p, Respond(200, TextBody("")))
            ELSE /\ pc' = [pc EXCEPT ![p] = "clear_lock"]
                 /\ UNCHANGED resp
    /\ UNCHANGED <<db, mu, loc, cur, results, history>>

ClearLock(p) == Lock(p, "clear_lock", "clear_exec")

ClearExec(p) ==
    /\ pc[p] = "clear_exec"
    /\ \/ LET res == DeleteAll(table)
          IN /\ CanWrite(cur)
             /\ table' = res.table
             /\ expect' = <<>>
             /\ released' = {}
             /\ lastMut' = "clear"
             /\ hist' = [q \in Procs |->
                           IF q = p
                           THEN [hist[p] EXCEPT
                                   !.postClear = lastMut = "clear",
                                   !.removed = res.rowsAffected,
                                   !.pre = IF lastMut = "clear"
                                           THEN <<table, seq>> ELSE <<>>]
                           ELSE IF Reading(q)
                           THEN [hist[q] EXCEPT !.seen = @ \cup {Records(res.table)},
                                                !.mustSee = {}]
                           ELSE hist[q]]
             /\ UNCHANGED <<seq, loc, idLog>>
       \/ /\ loc' = [loc EXCEPT ![p].err = StorageErr]
          /\ UNCHANGED <<db, history>>
    /\ pc' = [pc EXCEPT ![p] = "clear_unlock"]
    /\ UNCHANGED <<mu, req, cur, results, resp>>

ClearUnlockKeepsLockOnError(p) ==
    /\ pc[p] = "clear_unlock"
    /\ IF loc[p].err # Nil
       THEN /\ Finish(p, Respond(500, TextBody("Failed  clear log")))
            /\ UNCHANGED mu
       ELSE /\ Finish(p, Respond(200, TextBody("")))
            /\ mu' = FALSE
    /\ UNCHANGED <<db, req, loc, cur, results, history>>
ClearUnlock(p) ==
    /\ pc[p] = "clear_unlock"
    /\ mu' = FALSE
    /\ IF loc[p].err # Nil
       THEN Finish(p, Respond(500, TextBody("Failed  clear log")))
       ELSE Finish(p, Respond(200, TextBody("")))
    /\ UNCHANGED <<db, req, loc, cur, results, history>>

\* ----------------------------------------------------------------- /search
\* The conditions and bound parameters the handler assembles.
AppendIf(c, s, x) == IF c THEN Append(s, x) ELSE s

BuildConds(f, l, startDate, endDate) ==
    AppendIf(~IsZero(endDate),
      AppendIf(~IsZero(startDate),
        AppendIf(l # "",
          AppendIf(f # "", <<>>, CondFirst), CondLast), CondStart), CondEnd)

BuildParams(f, l, startDate, endDate) ==
    AppendIf(~IsZero(endDate),
      AppendIf(~IsZero(startDate),
        AppendIf(l # "",
          AppendIf(f # "", <<>>, f), l), FormatDate(startDate)),
      FormatDate(endDate))

\* strings.Join(conditions, " AND ") after " WHERE ", when there are any.
RECURSIVE JoinAnd(_)
JoinAnd(conds) ==
    IF Len(conds) <= 1 THEN conds
    ELSE <<conds[1], " AND ">> \o JoinAnd(Tail(conds))

BuildQuery(conds) ==
    IF Len(conds) > 0 THEN <<SelectCols, " WHERE ">> \o JoinAnd(conds)
    ELSE <<SelectCols>>

SearchBegin(p) ==
    /\ pc[p] = "idle"
    /\ \E m \in Methods :
         IF m # "GET"
         THEN /\ req' = [req EXCEPT ![p] = [op |-> "search", method |-> m]]
              /\ Finish(p, Respond(405, TextBody("Invalid request method")))
              /\ UNCHANGED <<loc, hist>>
         ELSE \E flt \in Filters :
                LET f == flt.first_name
                    l == flt.last_name
                    sd == flt.start_date
                    ed == flt.end_date
                    ps == IF sd # EmptyStr THEN ParseDate(sd)
                          ELSE [err |-> Nil, t |-> ZeroTime]
                    pe == IF ed # EmptyStr THEN ParseDate(ed)
                          ELSE [err |-> Nil, t |-> ZeroTime]
                    conds == BuildConds(f, l, ps.t, pe.t)
                IN /\ req' = [req EXCEPT ![p] =
                                [op |-> "search", method |-> m,
                                 first_name |-> f, last_name |-> l,
                                 start_date |-> sd, end_date |-> ed]]
                   /\ IF ps.err # Nil
                      THEN /\ Finish(p, Respond(400, TextBody(
                                  "Invalid start_date format. Use YYYY-MM-DD.")))
                           /\ UNCHANGED <<loc, hist>>
                      ELSE IF pe.err # Nil
                      THEN /\ Finish(p, Respond(400, TextBody(
                                  "Invalid end_date format. Use YYYY-MM-DD.")))
                           /\ UNCHANGED <<loc, hist>>
                      ELSE /\ loc' = [loc EXCEPT ![p] =
                                        [query |-> BuildQuery(conds),
                                         conditions |-> conds,
                                         queryParams |->
                                            BuildParams(f, l, ps.t, pe.t),
                                         err |-> Nil]]
                           /\ hist' = [hist EXCEPT ![p] = ReadHist]
                           /\ pc' = [pc EXCEPT ![p] = "search_lock"]
                           /\ UNCHANGED resp
    /\ UNCHANGED <<db, mu, cur, results,
                   idLog, expect, released, lastMut>>

SearchLock(p) == Lock(p, "search_lock", "search_query")

\* rows, err := dataBase.Query(query, queryParams...); mu.Unlock(); and the
\* check of err. Query prepares the statement and binds its parameters: it
\* reads no row, so it is one step with the Unlock that follows it.
SearchQueryKeepsLock(p) ==
    /\ pc[p] = "search_query"
    /\ \/ /\ loc' = [loc EXCEPT ![p].err = StorageErr]
          /\ Finish(p, Respond(500, TextBody("Database query failed")))
          /\ hist' = [hist EXCEPT ![p] = NoHist]
          /\ mu' = FALSE
       \/ /\ pc' = [pc EXCEPT ![p] = "search_next"]
          /\ UNCHANGED <<loc, resp, hist, mu>>
    /\ UNCHANGED <<db, req, cur, results, idLog, expect, released, lastMut>>
SearchQuery(p) ==
    /\ pc[p] = "search_query"
    /\ mu' = FALSE
    /\ \/ /\ loc' = [loc EXCEPT ![p].err = StorageErr]
          /\ Finish(p, Respond(500, TextBody("Database query failed")))
          /\ hist' = [hist EXCEPT ![p] = NoHist]
       \/ /\ pc' = [pc EXCEPT ![p] = "search_next"]
          /\ UNCHANGED <<loc, resp, hist>>
    /\ UNCHANGED <<db, req, cur, results, idLog, expect, released, lastMut>>

SearchNext(p) ==
    /\ pc[p] = "search_next"
    /\ \/ /\ StepFails(p)
          /\ loc' = [loc EXCEPT ![p].err = StorageErr]
          /\ Finish(p, Respond(500, TextBody("Error processing results")))
          /\ hist' = [hist EXCEPT ![p] = NoHist]
          /\ UNCHANGED results
       \/ /\ StepRow(p)
          /\ UNCHANGED <<pc, resp, loc, hist>>
       \/ /\ StepEnd(p)
          /\ Finish(p, Respond(200, JSONEncode(results[p])))
          /\ UNCHANGED <<results, loc, hist>>
    /\ UNCHANGED <<db, mu, req, idLog, expect, released, lastMut>>

\* ------------------------------------------------- the next request
\* The goroutine ends; another request is served with fresh locals.
Return(p) ==
    /\ pc[p] = "done"
    /\ pc' = [pc EXCEPT ![p] = "idle"]
    /\ req' = [req EXCEPT ![p] = NoReq]
    /\ loc' = [loc EXCEPT ![p] = NoLoc]
    /\ cur' = [cur EXCEPT ![p] = NoCur]
    /\ results' = [results EXCEPT ![p] = <<>>]
    /\ resp' = [resp EXCEPT ![p] = NoResp]
    /\ hist' = [hist EXCEPT ![p] = NoHist]
    /\ UNCHANGED <<db, mu, idLog, expect, released, lastMut>>

\* ----------------------------------------------------------- initDatabase
\* CREATE TABLE IF NOT EXISTS greetings (...) on a database file: a file
\* without the table gets an empty one with no id assigned yet; a table
\* that exists is left as it is, rows and sqlite_sequence.
NoTable == [exists |-> FALSE, table |-> <<>>, seq |-> 0]
DropAndCreateTable(file) == [exists |-> TRUE, table |-> <<>>, seq |-> 0]
CreateTableIfNotExists(file) ==
    IF file.exists THEN file ELSE [exists |-> TRUE, table |-> <<>>, seq |-> 0]

\* The server process ends, its goroutines and its mutex with it, and main
\* runs again: initDatabase opens the same ./greetings.dataBase file.
Restart ==
    LET file == CreateTableIfNotExists(
                   [exists |-> TRUE, table |-> table, seq |-> seq])
    IN /\ table' = file.table
       /\ seq' = file.seq
       /\ mu' = FALSE
       /\ pc' = [p \in Procs |-> "idle"]
       /\ req' = [p \in Procs |-> NoReq]
       /\ loc' = [p \in Procs |-> NoLoc]
       /\ cur' = [p \in Procs |-> NoCur]
       /\ results' = [p \in Procs |-> <<>>]
       /\ resp' = [p \in Procs |-> NoResp]
       /\ hist' = [p \in Procs |-> NoHist]
       /\ UNCHANGED <<idLog, expect, released, lastMut>>

\* The running server: some request goroutine takes a step.
Serve ==
    \E p \in Procs :
       \/ GreetBegin(p) \/ GreetLock(p) \/ GreetExec(p) \/ GreetUnlock(p)
       \/ ListBegin(p) \/ ListNext(p)
       \/ ClearBegin(p) \/ ClearLock(p) \/ ClearExec(p) \/ ClearUnlock(p)
       \/ SearchBegin(p) \/ SearchLock(p) \/ SearchQuery(p) \/ SearchNext(p)
       \/ Return(p)

Next == Serve \/ Restart

Spec == Init /\ [][Next]_vars

\* ------------------------------------------------------------ properties
Range(f) == {f[i] : i \in DOMAIN f}

InCritical(p) ==
    pc[p] \in {"greet_exec", "greet_unlock", "clear_exec", "clear_unlock"}

\* A request that ended with a 200 response carrying a JSON list.
ReturnedList(p, op) ==
    /\ pc[p] = "done"
    /\ req[p].op = op
    /\ resp[p].status = 200
    /\ resp[p].body.kind = "json"

\* The filter of the contract: a Record satisfies it when it satisfies every
\* field the caller supplied.
DateOf(text) == <<text[1].v, text[2].v, text[3].v>>
DateLeq(a, b) ==
    \/ a[1] < b[1]
    \/ a[1] = b[1] /\ a[2] < b[2]
    \/ a[1] = b[1] /\ a[2] = b[2] /\ a[3] <= b[3]
Satisfies(r, q) ==
    /\ (q.first_name # "" => r.first_name = q.first_name)
    /\ (q.last_name # "" => r.last_name = q.last_name)
    /\ (q.start_date # EmptyStr =>
          DateLeq(DateOf(q.start_date), DateOf(r.timestamp.date)))
    /\ (q.end_date # EmptyStr =>
          DateLeq(DateOf(r.timestamp.date), DateOf(q.end_date)))
NoFilter == Filter("", "", EmptyStr, EmptyStr)
FilterOf(p) ==
    IF req[p].op = "search"
    THEN Filter(req[p].first_name, req[p].last_name,
                req[p].start_date, req[p].end_date)
    ELSE NoFilter

\* The confirmation text of the contract for the names f and l.
ConfirmationText(f, l) ==
    <<"Thank you, ", f, " ", l, "! Your greeting has been recorded.">>

\* C1 (Insert monotonicity): the ids INSERTs assign, in the order the
\* inserts executed under the lock, go up by exactly one each time, and the
\* rows inserted since the last Clear carry the last of these ids, in that
\* order: N inserts with no Clear between them get base, ..., base+N-1.
C1_InsertMonotonicity ==
    /\ \A i \in 1..(Len(idLog) - 1) : idLog[i + 1] = idLog[i] + 1
    /\ Len(table) <= Len(idLog)
    /\ \A i \in 1..Len(table) :
         table[i].id = idLog[Len(idLog) - Len(table) + i]

\* Two /greet requests that were both in flight before either INSERT ran
\* have both inserted.
C1_Witness ==
    \E p \in Procs, q \in Procs :
       /\ p # q
       /\ hist[p].began = 0 /\ hist[q].began = 0
       /\ pc[p] = "done" /\ resp[p].status = 200
       /\ pc[q] = "greet_unlock" /\ loc[q].err = Nil
       /\ Len(table) = 2

\* C2 (ids unique, never reused): every id an INSERT assigns is greater
\* than every id assigned before it, whether or not the earlier rows have
\* been removed by a Clear, and no two rows of the table share an id.
C2_IdsNeverReused ==
    /\ \A i \in 1..Len(idLog), j \in 1..Len(idLog) :
         i < j => idLog[i] < idLog[j]
    /\ \A i \in 1..Len(table), j \in 1..Len(table) :
         i # j => table[i].id # table[j].id

\* An insert after a Clear that removed an earlier row.
C2_Witness ==
    /\ Len(idLog) = 2
    /\ Len(table) = 1
    /\ table[1].id = idLog[2]

\* C3 (mutual exclusion of mutations): at most one request is between
\* Lock and Unlock around an INSERT or a DELETE, and the mutex is held
\* whenever one is.
C3_MutualExclusion ==
    /\ Cardinality({p \in Procs : InCritical(p)}) <= 1
    /\ (\E p \in Procs : InCritical(p)) => mu = TRUE

\* One request is about to run its INSERT while a Clear waits for the lock.
C3_Witness ==
    \E p \in Procs, q \in Procs :
       pc[p] = "greet_exec" /\ pc[q] = "clear_lock"

\* C4 (consistent snapshot for reads): what a ListAll or Search returns,
\* when the table changed while the call was running, is what its query
\* selects from the table as it stood at one point of the call.
C4_ConsistentSnapshot ==
    \A p \in Procs :
       (/\ ReturnedList(p, "list") \/ ReturnedList(p, "search")
        /\ Cardinality(hist[p].seen) >= 2) =>
          \E t \in hist[p].seen :
             results[p] = SelectAll(t, loc[p].query, loc[p].queryParams)

\* C5 (read-after-write visibility): a ListAll or Search that started
\* after an Insert released the lock, with no Clear since, returns that
\* Insert's Record when the Record satisfies the filter.
C5_ReadAfterWrite ==
    \A p \in Procs :
       (ReturnedList(p, "list") \/ ReturnedList(p, "search")) =>
          \A r \in hist[p].mustSee :
             Satisfies(r, FilterOf(p)) => r \in Range(results[p])

\* C6 (Clear atomic with respect to Inserts): the table holds exactly the
\* Records of the Inserts that executed after the last Clear, whole and in
\* order, and nothing of the Inserts before it.
C6_ClearAtomic ==
    /\ Len(table) = Len(expect)
    /\ \A i \in 1..Len(table) : Project(table[i]) = expect[i]

\* A Clear that removed a row has just run while an Insert waits for the lock.
C6_Witness ==
    \E p \in Procs, q \in Procs :
       /\ pc[p] = "clear_unlock" /\ loc[p].err = Nil
       /\ hist[p].removed >= 1
       /\ pc[q] = "greet_lock"

\* C7 (post-clear visibility): a ListAll that starts after a Clear
\* succeeded, with no Insert executed since, responds 200 with the empty
\* sequence unless its query itself failed.
C7_PostClearVisibility ==
    \A p \in Procs :
       (pc[p] = "done" /\ req[p].op = "list" /\ req[p].method = "GET"
          /\ hist[p].postClear /\ loc[p].err = Nil) =>
             /\ resp[p].status = 200
             /\ resp[p].body.kind = "json"
             /\ results[p] = <<>>
             /\ resp[p].body.items = <<>>

\* Such a ListAll, after a Clear of a table that had held rows.
C7_Witness ==
    \E p \in Procs :
       /\ pc[p] = "done" /\ req[p].op = "list" /\ req[p].method = "GET"
       /\ hist[p].postClear /\ loc[p].err = Nil
       /\ Len(idLog) >= 1
       /\ resp[p].status = 200

C9_RoundTrip ==
    \A p \in Procs :
       ReturnedList(p, "list") =>
          \A r \in hist[p].mustSee :
             \E i \in 1..Len(results[p]) :
                /\ results[p][i].first_name = r.first_name
                /\ results[p][i].last_name = r.last_name
                /\ results[p][i].message =
                      ConfirmationText(r.first_name, r.last_name)

\* C10 (Search-empty-filter equivalence): a Search with no filter field
\* set and a ListAll that ran against the same table state return the same
\* set of Records.
C10_SearchNoFilterIsListAll ==
    \A p \in Procs, q \in Procs :
       (/\ ReturnedList(p, "search") /\ FilterOf(p) = NoFilter
        /\ ReturnedList(q, "list")
        /\ \E t \in hist[p].seen : hist[p].seen = {t} /\ hist[q].seen = {t})
          => Range(results[p]) = Range(results[q])


\* C11 (Search conjunction): what a Search returns is exactly the Records
\* of the table (as it stood at one point of the call) that satisfy every
\* supplied filter field at once: none that fails a supplied condition, and
\* none missing that satisfies them all.
C11_SearchConjunction ==
    \A p \in Procs :
       ReturnedList(p, "search") =>
          \E t \in hist[p].seen :
             results[p] = SelectSeq(t, LAMBDA r : Satisfies(r, FilterOf(p)))

\* The dates s..e, both included, whatever the time of day.
InDateRange(r, s, e) ==
    /\ (s # EmptyStr => DateLeq(DateOf(s), DateOf(r.timestamp.date)))
    /\ (e # EmptyStr => DateLeq(DateOf(r.timestamp.date), DateOf(e)))

\* C12 (date range, inclusive): a Search by date only (startDate s and/or
\* endDate e) returns exactly the Records whose date d has s <= d <= e; a
\* Record dated exactly s, or exactly e, is returned.
C12_DateRangeInclusive ==
    \A p \in Procs :
       (/\ ReturnedList(p, "search")
        /\ req[p].first_name = "" /\ req[p].last_name = ""
        /\ req[p].start_date # EmptyStr \/ req[p].end_date # EmptyStr) =>
          \E t \in hist[p].seen :
             Range(results[p]) =
                {r \in Range(t) :
                    InDateRange(r, req[p].start_date, req[p].end_date)}


\* A text of the form YYYY-MM-DD that names a day of the calendar.
WellFormedDate(s) ==
    /\ Len(s) = 3
    /\ s[1].w = 4 /\ s[2].w = 2 /\ s[3].w = 2
    /\ s[2].v \in 1..12
    /\ s[3].v >= 1
    /\ s[3].v <= (IF s[2].v \in {4, 6, 9, 11} THEN 30
                  ELSE IF s[2].v # 2 THEN 31
                  ELSE IF s[1].v % 4 = 0 /\ (s[1].v % 100 # 0 \/ s[1].v % 400 = 0)
                       THEN 29 ELSE 28)

\* A Search that supplies a start or end date which is not such a text.
InvalidDateSearch(p) ==
    /\ req[p].op = "search" /\ req[p].method = "GET"
    /\ \/ req[p].start_date # EmptyStr /\ ~WellFormedDate(req[p].start_date)
       \/ req[p].end_date # EmptyStr /\ ~WellFormedDate(req[p].end_date)

\* C13 (invalid date rejection): a Search whose startDate or endDate does
\* not parse as YYYY-MM-DD is answered 400 at once: it never waits for or
\* holds the lock, no query is built or run, no cursor is opened, and it
\* returns no Records (no list at all, empty or unfiltered).
C13_InvalidDateRejected ==
    \A p \in Procs :
       InvalidDateSearch(p) =>
          /\ pc[p] = "done"
          /\ resp[p].status = 400
          /\ resp[p].body.kind = "text"
          /\ results[p] = <<>>
          /\ ~cur[p].open
          /\ loc[p] = NoLoc

\* Such a Search, against a table that holds a row.
C13_Witness ==
    \E p \in Procs :
       /\ InvalidDateSearch(p)
       /\ pc[p] = "done"
       /\ table # <<>>


\* An Insert called with an empty firstName or lastName.
InvalidInsert(r) ==
    /\ r.op = "greet" /\ r.method = "POST"
    /\ r.first_name = "" \/ r.last_name = ""

C14_Rejected ==
    /\ \A p \in Procs :
          InvalidInsert(req[p]) =>
             /\ pc[p] = "done"
             /\ resp[p].status = 400
             /\ resp[p].body.kind = "text"
    /\ \A i \in 1..Len(table) :
          table[i].first_name # "" /\ table[i].last_name # ""

C14_NoEffect ==
    \A p \in Procs :
       (pc[p] = "idle" /\ InvalidInsert(req'[p])) =>
          /\ mu' = mu
          /\ table' = table
          /\ seq' = seq

\* C14 (invalid input rejection): an Insert with an empty firstName or
\* lastName is answered 400 at once, without waiting for or taking the
\* lock, and the step that rejects it leaves the mutex, the rows and the id
\* counter as they were; so every row of the table has both names non-empty.
C14_InvalidInputRejected == []C14_Rejected /\ [][C14_NoEffect]_vars

\* An Insert with an empty lastName has been rejected while the table
\* holds a row.
C14_Witness ==
    \E p \in Procs :
       /\ InvalidInsert(req[p])
       /\ req[p].first_name # ""
       /\ pc[p] = "done"
       /\ table # <<>>

\* An Insert whose INSERT statement failed.
InsertFailed(p) == req[p].op = "greet" /\ loc[p].err # Nil

C15_Reported ==
    \A p \in Procs :
       InsertFailed(p) =>
          \/ pc[p] = "greet_unlock" /\ mu = TRUE
          \/ /\ pc[p] = "done"
             /\ resp[p].status = 500
             /\ resp[p].body.kind = "text"

C15_NoTrace ==
    \A p \in Procs :
       /\ (pc[p] = "greet_exec" /\ InsertFailed(p)') =>
             table' = table /\ seq' = seq
       /\ (pc[p] = "greet_unlock" /\ InsertFailed(p) /\ pc'[p] = "done") =>
             mu' = FALSE /\ table' = table /\ seq' = seq

\* C15 (insert failure): when the INSERT of an Insert fails, the failing
\* statement leaves the rows and the id counter as they were, the handler
\* then releases the lock, and the call ends with a 500 error response,
\* never with a success response.
C15_InsertFailureReported == []C15_Reported /\ [][C15_NoTrace]_vars

\* An Insert failed and was answered while the table holds a row of an
\* earlier Insert.
C15_Witness ==
    \E p \in Procs :
       /\ InsertFailed(p)
       /\ pc[p] = "done"
       /\ Len(table) = 1


\* A call whose statement (INSERT, DELETE or the Query of a SELECT) failed
\* ends with an error response.
C16_ErrorReported ==
    \A p \in Procs :
       (pc[p] = "done" /\ req[p].op \in {"greet", "clear", "list", "search"}
          /\ loc[p].err # Nil) =>
             resp[p].status = 500 /\ resp[p].body.kind = "text"

\* A ListAll or Search that leaves its row loop with a success response
\* has read every row its query selects: none remained when it stopped.
C16_NoPartialList ==
    \A p \in Procs :
       (/\ pc[p] \in {"list_next", "search_next"}
        /\ pc'[p] = "done"
        /\ resp'[p].status = 200) =>
          Remaining(table, cur[p].lastId, loc[p].query, loc[p].queryParams)
             = <<>>

\* C16 (no silent failures, no partial results): every call whose
\* statement fails ends with an error response (a failed Clear or Insert is
\* never reported as success), and a ListAll or Search in which a storage
\* error stops the iteration over the rows never answers with success
\* carrying only the rows read so far.
C16_NoSilentFailure == []C16_ErrorReported /\ [][C16_NoPartialList]_vars


\* ------------------------------------------------------ fair scheduling
\* The steps of a handler that wait for nothing: the Go scheduler runs every
\* runnable goroutine, so a handler standing at one of them takes it.
Step(p) ==
    \/ GreetExec(p) \/ GreetUnlock(p)
    \/ ListNext(p)
    \/ ClearExec(p) \/ ClearUnlock(p)
    \/ SearchQuery(p) \/ SearchNext(p)

\* mu.Lock() of a handler. sync.Mutex hands the mutex to a goroutine that
\* has waited for it (starvation mode), so a waiter that finds the mutex
\* free again and again gets it.
Acquire(p) == GreetLock(p) \/ ClearLock(p) \/ SearchLock(p)

Fairness == \A p \in Procs : WF_vars(Step(p)) /\ SF_vars(Acquire(p))

\* The fair specification is the server while it runs. Its requests: every
\* kind of request, /search with these query strings only.
FairFilters ==
    { Filter("", "", EmptyStr, EmptyStr),
      Filter("Ann", "Lee", EmptyStr, EmptyStr),
      Filter("", "", D_Malformed, EmptyStr) }

FairInputs ==
    \A p \in Procs :
       (req[p].op = "search" /\ req[p].method = "GET") =>
          FilterOf(p) \in FairFilters

FairNext == Serve /\ FairInputs'

FairSpec == Init /\ [][FairNext]_vars /\ Fairness

LockWaitPcs == {"greet_lock", "clear_lock", "search_lock"}
LockHeldPcs == {"greet_exec", "greet_unlock", "clear_exec", "clear_unlock",
                "search_query"}

\* C17 (lock liveness): the mutex is locked only while some handler stands
\* between its Lock and its Unlock; under fair scheduling a handler waiting
\* for the mutex gets it, a handler holding it releases it (also when its
\* statement fails), and every Insert, Clear and Search call that has
\* started ends with a response.
C17_LockLiveness ==
    /\ [](mu = TRUE => \E p \in Procs : pc[p] \in LockHeldPcs)
    /\ \A p \in Procs :
          /\ (pc[p] \in LockWaitPcs) ~> (pc[p] \in LockHeldPcs)
          /\ (pc[p] \in LockHeldPcs) ~> (pc[p] \notin LockHeldPcs)
          /\ (pc[p] \notin {"idle", "done"}) ~> (pc[p] = "done")

\* An Insert whose statement failed still holds the mutex while a Clear
\* waits for it.
C17_Witness ==
    \E p \in Procs, q \in Procs :
       /\ pc[p] = "greet_unlock" /\ loc[p].err # Nil
       /\ pc[q] = "clear_lock"
       /\ mu = TRUE

\* The handler of p takes a step.
Moves(p) ==
    <<pc[p], req[p], loc[p], cur[p], results[p], resp[p]>>' #
       <<pc[p], req[p], loc[p], cur[p], results[p], resp[p]>>

\* C18 (record lifecycle and immutability): in every step the rows stay
\* as they are, field by field, unless the step is the INSERT of an Insert,
\* which appends one row carrying exactly the values it was given and
\* leaves the rows before it untouched, or the DELETE of a Clear, which
\* removes all rows at once; the id counter changes in an INSERT only; and
\* no step of a ListAll or a Search, successful or failed, changes the rows
\* or the id counter.
C18_RecordLifecycle ==
    [][ /\ table' # table =>
             \/ \E p \in Procs :
                   /\ pc[p] = "greet_exec" /\ pc'[p] = "greet_unlock"
                   /\ Len(table') = Len(table) + 1
                   /\ SubSeq(table', 1, Len(table)) = table
                   /\ Project(table'[Len(table')]) = GreetRecord(p)
             \/ \E p \in Procs :
                   /\ pc[p] = "clear_exec" /\ pc'[p] = "clear_unlock"
                   /\ table' = <<>>
        /\ seq' # seq =>
             \E p \in Procs : pc[p] = "greet_exec" /\ table' # table
        /\ \A p \in Procs :
              (Moves(p) /\ (req[p].op \in {"list", "search"}
                              \/ req'[p].op \in {"list", "search"})) =>
                 table' = table /\ seq' = seq
      ]_vars

\* A Search has failed and a ListAll has returned while the table holds
\* two rows.
C18_Witness ==
    \E p \in Procs, q \in Procs :
       /\ pc[p] = "done" /\ req[p].op = "search" /\ loc[p].err # Nil
       /\ pc[q] = "done" /\ req[q].op = "list" /\ resp[q].status = 200
       /\ Len(table) = 2

\* main runs again while requests are in progress.
Restarted ==
    /\ \E p \in Procs : pc[p] \notin {"idle", "done"}
    /\ \A p \in Procs : pc'[p] = "idle"

\* C19 (idempotent schema setup): initDatabase on a file without the table
\* creates it empty; run again after Inserts and Clears it leaves every
\* row and the id counter as they were, and no id assigned before it is
\* assigned again after it.
C19_IdempotentSetup ==
    /\ [](/\ CreateTableIfNotExists(NoTable).exists
          /\ CreateTableIfNotExists(NoTable).table = <<>>
          /\ \A i \in 1..Len(idLog), j \in 1..Len(idLog) :
                i # j => idLog[i] # idLog[j])
    /\ [][Restarted => table' = table /\ seq' = seq]_vars

\* The server was stopped between the INSERT of a first Insert and its
\* Unlock and started again; a second Insert has completed since: the table
\* holds the rows of both.
C19_Witness ==
    /\ \A p \in Procs : pc[p] = "idle"
    /\ mu = FALSE
    /\ Len(table) = 2
    /\ Project(table[1]) \notin released
    /\ Project(table[2]) \in released

\* The conditions and the parameters the contract gives for a filter whose
\* dates are valid: one of each per field present, in the order firstName,
\* lastName, startDate, endDate.
ShapeConds(q) ==
    (IF q.first_name # "" THEN <<CondFirst>> ELSE <<>>)
    \o (IF q.last_name # "" THEN <<CondLast>> ELSE <<>>)
    \o (IF q.start_date # EmptyStr THEN <<CondStart>> ELSE <<>>)
    \o (IF q.end_date # EmptyStr THEN <<CondEnd>> ELSE <<>>)

ShapeParams(q) ==
    (IF q.first_name # "" THEN <<q.first_name>> ELSE <<>>)
    \o (IF q.last_name # "" THEN <<q.last_name>> ELSE <<>>)
    \o (IF q.start_date # EmptyStr THEN <<q.start_date>> ELSE <<>>)
    \o (IF q.end_date # EmptyStr THEN <<q.end_date>> ELSE <<>>)

QueryWords ==
    {SelectCols, " WHERE ", " AND ", CondFirst, CondLast, CondStart, CondEnd}

\* C20 (Predicate Builder shape): the query a Search has built has one
\* condition and one bound parameter for each field present in its filter,
\* in the order firstName, lastName, startDate, endDate, as many conditions
\* as parameters, only fixed text in the query itself, and a WHERE clause
\* exactly when a field is present; for every valid date, 0001-01-01 too.
C20_BuilderShape ==
    \A p \in Procs :
       (req[p].op = "search" /\ pc[p] \in {"search_lock", "search_query",
                                           "search_next"}) =>
          /\ loc[p].conditions = ShapeConds(FilterOf(p))
          /\ loc[p].queryParams = ShapeParams(FilterOf(p))
          /\ Len(loc[p].conditions) = Len(loc[p].queryParams)
          /\ Range(loc[p].query) \subseteq QueryWords
          /\ (" WHERE " \in Range(loc[p].query)) <=>
                (ShapeConds(FilterOf(p)) # <<>>)

\* The handler of p takes a step of its own (the server does not restart).
MovesAlone(p) == Moves(p) /\ ~Restarted

\* The mutex is locked exactly when one handler stands between its Lock
\* and its Unlock: a handler that is anywhere else (validating, computing
\* message and timestamp, waiting, iterating over rows, encoding or
\* rendering its response, done) does not hold it.
C21_HeldAtStatementOnly ==
    Cardinality({p \in Procs : pc[p] \in LockHeldPcs}) =
       (IF mu = TRUE THEN 1 ELSE 0)

\* A handler outside Lock..Unlock neither takes nor releases the mutex;
\* one that has locked it runs its one statement and unlocks at once.
C21_OneStatement ==
    \A p \in Procs :
       MovesAlone(p) =>
          /\ pc[p] \notin (LockWaitPcs \cup LockHeldPcs) => mu' = mu
          /\ pc[p] = "greet_exec" => pc'[p] = "greet_unlock"
          /\ pc[p] = "clear_exec" => pc'[p] = "clear_unlock"
          /\ pc[p] \in {"greet_unlock", "clear_unlock", "search_query"} =>
                mu' = FALSE /\ pc'[p] \notin LockHeldPcs

\* C21 (narrow lock scope): the Store lock is held only while the single
\* database statement of an Insert, Clear or Search is issued: in every
\* reachable state a handler that is validating input, computing message
\* and timestamp, iterating over result rows, or encoding or rendering its
\* response does not hold the lock.
C21_NarrowLockScope ==
    []C21_HeldAtStatementOnly /\ [][C21_OneStatement]_vars

\* A Search is iterating over its rows, having read one, while a Clear
\* holds the mutex.
C21_Witness ==
    \E p \in Procs, q \in Procs :
       /\ pc[p] = "search_next" /\ results[p] # <<>>
       /\ pc[q] = "clear_exec"
       /\ mu = TRUE

\* A ListAll can always take its next step, whoever holds the mutex; a
\* handler waiting for the mutex is kept waiting by a handler between
\* Lock and Unlock only, which is never a ListAll; and at most one Search
\* is issuing its query.
C22_ListNeverWaits ==
    /\ \A p \in Procs :
          /\ pc[p] = "idle" => ENABLED ListBegin(p)
          /\ pc[p] = "list_next" => ENABLED ListNext(p)
          /\ (pc[p] \in LockWaitPcs /\ ~ENABLED Acquire(p)) =>
                \E q \in Procs :
                   pc[q] \in LockHeldPcs /\ req[q].op # "list"
    /\ Cardinality({p \in Procs : pc[p] = "search_query"}) <= 1

\* No step of a ListAll locks or unlocks the mutex.
C22_ListLeavesLock ==
    \A p \in Procs :
       (MovesAlone(p) /\ (req[p].op = "list" \/ req'[p].op = "list")) =>
          mu' = mu

=============================================================================
